---- MODULE Spec2Model ----
(***************************************************************************)
(* State-machine model of the AVR/Arduino hardware simulator               *)
(* (src/tools/simulator/avr_simulator.py, class AVRSimulator).             *)
(*                                                                         *)
(* Two kinds of execution context are modelled: the GUI (observer) thread, *)
(* which runs the toolbar commands and widget callbacks, and the           *)
(* simulation threads created by run_code.  Simulated time is counted in   *)
(* milliseconds (the source keeps float seconds), real time in             *)
(* microseconds.  Statements that touch shared state are separate steps    *)
(* wherever another thread can run between them.                           *)
(***************************************************************************)
EXTENDS Integers, Sequences, FiniteSets, TLC

\* ------------------------------------------------------------------ bounds
MaxThreads == 2          \* simulation threads started in one behaviour
MaxLoops == 2            \* loop iterations explored per simulation thread
MaxGuiEvents == 3        \* button presses and widget callbacks in one behaviour

\* ------------------------------------------------------- program constants
NumDigitalPins == 14
NumPins == 20
AnalogDefault == 512
PwmMax == 255
JoinTimeout == 1000000   \* join(timeout=1.0), in us
SleepThreshold == 1000   \* "if actual_delay > 0.001", in us
LoopTick == 1            \* "simulation_time += 0.001", in ms
LoopTarget == 10000      \* the 0.001 s loop target, in us times ten (speeds are in tenths)

Pins == 0 .. (NumPins - 1)
Timers == 0 .. 2
Threads == 1 .. MaxThreads
Speeds == {"0.1x", "0.5x", "1x", "2x", "5x", "10x"}
Modes == {"INPUT", "OUTPUT", "INPUT_PULLUP"}

\* ---------------------------------------------------------------- helpers
Min(a, b) == IF a < b THEN a ELSE b
Max(a, b) == IF a > b THEN a ELSE b

\* max(0, min(255, value))
Clamp(value) == Max(0, Min(PwmMax, value))

Digit(d) ==
  CASE d = 0 -> "0" [] d = 1 -> "1" [] d = 2 -> "2" [] d = 3 -> "3"
    [] d = 4 -> "4" [] d = 5 -> "5" [] d = 6 -> "6" [] d = 7 -> "7"
    [] d = 8 -> "8" [] d = 9 -> "9"

RECURSIVE IntToStr(_)
\* str(n) for a non-negative integer, as the f-string formats it
IntToStr(n) == IF n < 10 THEN Digit(n) ELSE IntToStr(n \div 10) \o Digit(n % 10)

\* float(self.speed_var.get().replace('x', '')), in tenths
SpeedTenths(s) ==
  CASE s = "0.1x" -> 1 [] s = "0.5x" -> 5 [] s = "1x" -> 10
    [] s = "2x" -> 20 [] s = "5x" -> 50 [] s = "10x" -> 100

\* actual_delay = (ms / 1000.0) / speed_multiplier, in us
ActualDelay(ms, s) == (ms * 10000) \div SpeedTenths(s)

\* target_time = 0.001 / speed_multiplier, in us
TargetTime(s) == LoopTarget \div SpeedTenths(s)

\* f"Serial communication started at {baud} baud\n"
BeginBanner(baud) == "Serial communication started at " \o IntToStr(baud) \o " baud\n"

SetupBanner == "Arduino setup completed!\n"

\* ------------------------------------------------------------ source lines
\* One line of routine text, after strip(): the call it starts with and the
\* arguments as written.  num < 0 or pin < 0 stands for a literal with a
\* minus sign, which the \d+ patterns of execute_line do not match.
Line(f, p, n, w) == [fn |-> f, pin |-> p, num |-> n, word |-> w]
LnPinMode(p, m) == Line("pinMode", p, 0, m)
LnDigitalWrite(p, s) == Line("digitalWrite", p, 0, s)
LnAnalogWrite(p, v) == Line("analogWrite", p, v, "")
LnSerialBegin(b) == Line("Serial.begin", 0, b, "")
LnPrintln(t) == Line("Serial.println", 0, 0, t)
LnPrint(t) == Line("Serial.print", 0, 0, t)
LnDelay(ms) == Line("delay", 0, ms, "")
LnComment == Line("//", 0, 0, "")

\* Routine texts the editor may hold, as their setup and loop bodies.
ProgBlink ==
  [setup |-> << LnPinMode(13, "OUTPUT") >>,
   loop |-> << LnDigitalWrite(13, "HIGH"), LnDelay(1000),
               LnDigitalWrite(13, "LOW"), LnDelay(1000) >>]
ProgInputWrite ==
  [setup |-> << LnPinMode(2, "INPUT"), LnDigitalWrite(2, "HIGH") >>,
   loop |-> << LnComment, LnDigitalWrite(25, "HIGH"), LnPrint("early"),
               LnDigitalWrite(13, "HIGH") >>]
ProgSerial ==
  [setup |-> << LnSerialBegin(9600), LnPrint("hi"), LnPrint("hi") >>,
   loop |-> << LnPrintln("on") >>]
ProgLongWait ==
  [setup |-> << >>,
   loop |-> << LnDelay(5000), LnDigitalWrite(13, "HIGH") >>]
ProgPwm ==
  [setup |-> << LnPinMode(9, "OUTPUT"), LnAnalogWrite(9, 300), LnAnalogWrite(9, -10) >>,
   loop |-> << LnAnalogWrite(10, 128), LnPinMode(3, "INPUT_PULLUP"),
               LnDigitalWrite(3, "HIGH"), LnAnalogWrite(25, 5), LnDelay(2) >>]
ProgModes ==
  [setup |-> << LnPinMode(4, "OUTPUT"), LnDigitalWrite(4, "HIGH"), LnPinMode(4, "INPUT"),
                LnDelay(3) >>,
   loop |-> << LnPinMode(4, "OUTPUT"), LnPinMode(25, "OUTPUT"),
               LnPinMode(5, "INPUT_PULLUP"), LnAnalogWrite(5, 77),
               LnSerialBegin(115200), LnDelay(4) >>]

Programs == {ProgBlink, ProgInputWrite, ProgSerial, ProgLongWait, ProgPwm, ProgModes}

\* Inputs the observer applies through the widgets.
ObsSpeeds == {"0.5x", "10x"}
ObsModes == {[pin |-> 13, mode |-> "INPUT"]}
ObsStates == {[pin |-> 13, high |-> TRUE]}
ObsAnalog == {[pin |-> 14, value |-> 1023]}
ObsTexts == {"go"}

\* ------------------------------------------------------------------ state
VARIABLES
  pins,             \* self.pins: pin number -> GPIOPin
  timers,           \* self.timers: timer id -> TimerConfig
  serial,           \* self.serial: SerialData
  sim_running,      \* self.sim_running
  simulation_time,  \* self.simulation_time, in ms
  speed_var,        \* self.speed_var
  sim_thread,       \* self.sim_thread: the number of the thread started last, 0 for None
  has_code,         \* hasattr(self, 'setup_code') and hasattr(self, 'loop_code')
  setup_code,       \* self.setup_code
  loop_code,        \* self.loop_code
  thr,              \* each simulation thread's position and locals
  obs,              \* the GUI thread's position inside a command
  join_rem,         \* real time left before the pending join() times out
  gui_events,       \* button presses and widget callbacks so far
  code_text         \* the routines written in the editor (self.code_text)

vars == << pins, timers, serial, sim_running, simulation_time, speed_var, sim_thread,
           has_code, setup_code, loop_code, thr, obs, join_rem, gui_events, code_text >>

registry == << pins, timers, serial, simulation_time >>

\* GPIOPin(number=pin), with the analog default of init_gpio_pins
GPIOPin(n) ==
  [number |-> n, mode |-> "INPUT", state |-> "LOW",
   analog_value |-> IF n >= NumDigitalPins THEN AnalogDefault ELSE 0,
   pwm_value |-> 0, pwm_enabled |-> FALSE, last_change |-> 0]

\* self.pins after init_gpio_pins
InitPins ==
  [n \in Pins |-> IF n \in {13, 1} THEN [GPIOPin(n) EXCEPT !.mode = "OUTPUT"] ELSE GPIOPin(n)]

TimerConfig(t) ==
  [timer_id |-> t, prescaler |-> 1, compare_value |-> 0, counter_value |-> 0,
   overflow_count |-> 0, pwm_mode |-> FALSE, frequency |-> 0, duty_cycle |-> 0]

SerialData ==
  [tx_buffer |-> << >>, rx_buffer |-> << >>, baud_rate |-> 9600, tx_count |-> 0, rx_count |-> 0]

\* A simulation thread that does not exist (never started, or finished).
DeadThread ==
  [pc |-> "dead", phase |-> "none", lines |-> << >>, idx |-> 0, loop_count |-> 0,
   sleep_rem |-> 0, loop_time |-> 0, tmp |-> 0, text |-> ""]

Alive(w) == thr[w].pc # "dead"

\* The GUI thread inside mainloop, between callbacks.
IdleObserver == [pc |-> "idle", cmd |-> "none", tmp |-> 0, text |-> ""]

Init ==
  /\ pins = InitPins
  /\ timers = [t \in Timers |-> TimerConfig(t)]
  /\ serial = SerialData
  /\ sim_running = FALSE
  /\ simulation_time = 0
  /\ speed_var = "1x"
  /\ sim_thread = 0
  /\ has_code = FALSE
  /\ setup_code = << >>
  /\ loop_code = << >>
  /\ thr = [w \in Threads |-> DeadThread]
  /\ obs = IdleObserver
  /\ join_rem = 0
  /\ gui_events = 0
  /\ code_text \in Programs

\* ------------------------------------------------- simulation thread steps
Cur(w) == thr[w].lines[thr[w].idx]

\* The thread is about to hand its current line to execute_line.
AtLine(w, f) ==
  /\ thr[w].pc = "line"
  /\ thr[w].idx <= Len(thr[w].lines)
  /\ Cur(w).fn = f

\* The for-loop of parse_and_execute_code passing over a line
NextLine_Skip(t) == [t EXCEPT !.pc = "line", !.idx = @ + 2, !.tmp = 0, !.text = ""]

\* The for-loop of parse_and_execute_code moves on to the next line.
NextLine(t) == [t EXCEPT !.pc = "line", !.idx = @ + 1, !.tmp = 0, !.text = ""]

\* serial_output returns to its caller: the for-loop, or simulation_loop
\* when the call was the one at the end of execute_setup.
AfterOutput(t) ==
  IF t.phase = "setup" /\ t.idx > Len(t.lines)
    THEN [t EXCEPT !.pc = "while", !.tmp = 0, !.text = ""]
    ELSE NextLine(t)

\* threading.Thread.start(): simulation_loop begins with execute_setup,
\* which splits self.setup_code into lines.
execute_setup(w) ==
  /\ thr[w].pc = "start"
  /\ thr' = [thr EXCEPT ![w] = [@ EXCEPT !.pc = "line", !.phase = "setup",
                                         !.lines = setup_code, !.idx = 1]]
  /\ UNCHANGED << registry, sim_running, speed_var, sim_thread, has_code, setup_code,
                  loop_code, obs, join_rem, gui_events, code_text >>

\* A comment line, a line no branch of execute_line recognises, or a line
\* whose pattern does not match: nothing is called.
LineSkipped(l) ==
  \/ l.fn \notin {"pinMode", "digitalWrite", "analogWrite", "Serial.begin",
                  "Serial.println", "Serial.print", "delay"}
  \/ l.fn \in {"pinMode", "digitalWrite", "analogWrite"} /\ l.pin < 0
  \/ l.fn \in {"analogWrite", "Serial.begin", "delay"} /\ l.num < 0
  \/ l.fn = "pinMode" /\ l.word = ""
  \/ l.fn = "digitalWrite" /\ l.word = ""

skip_line(w) ==
  /\ thr[w].pc = "line"
  /\ thr[w].idx <= Len(thr[w].lines)
  /\ LineSkipped(Cur(w))
  /\ thr' = [thr EXCEPT ![w] = NextLine(@)]
  /\ UNCHANGED << registry, sim_running, speed_var, sim_thread, has_code, setup_code,
                  loop_code, obs, join_rem, gui_events, code_text >>

\* arduino_pinMode bringing the pin back to reset state when the mode changes
PinModePins_Clearing(ps, pin, mode) ==
  IF pin \notin DOMAIN ps THEN ps
  ELSE IF mode \in Modes THEN [ps EXCEPT ![pin].mode = mode, ![pin].state = "LOW"]
  ELSE ps

\* arduino_pinMode folding a pin number beyond the last onto the pins there are
PinModePins_Wrap(ps, pin, mode) ==
  IF mode \in Modes THEN [ps EXCEPT ![pin % NumPins].mode = mode] ELSE ps

\* arduino_pinMode: the pins after the call.
PinModePins(ps, pin, mode) ==
  IF pin \notin DOMAIN ps THEN ps
  ELSE IF mode \in Modes THEN [ps EXCEPT ![pin].mode = mode]
  ELSE ps

arduino_pinMode(w) ==
  /\ AtLine(w, "pinMode")
  /\ ~LineSkipped(Cur(w))
  /\ pins' = PinModePins(pins, Cur(w).pin, Cur(w).word)
  /\ thr' = [thr EXCEPT ![w] = NextLine(@)]
  /\ UNCHANGED << timers, serial, simulation_time, sim_running, speed_var, sim_thread,
                  has_code, setup_code, loop_code, obs, join_rem, gui_events, code_text >>

\* arduino_digitalWrite without the mode test of its early return
DigitalWriteAllowed_AnyMode(ps, pin) == pin \in DOMAIN ps

\* arduino_digitalWrite, the early return
DigitalWriteAllowed(ps, pin) == pin \in DOMAIN ps /\ ps[pin].mode = "OUTPUT"

\* arduino_digitalWrite: self.pins[pin].state = pin_state
DigitalWriteState(ps, pin, word) ==
  [ps EXCEPT ![pin].state = IF word = "HIGH" THEN "HIGH" ELSE "LOW"]

\* arduino_digitalWrite recording no transition time
DigitalWriteStamp_Stale(ps, pin, now) == ps

\* arduino_digitalWrite: self.pins[pin].last_change = self.simulation_time
DigitalWriteStamp(ps, pin, now) == [ps EXCEPT ![pin].last_change = now]

arduino_digitalWrite(w) ==
  /\ AtLine(w, "digitalWrite")
  /\ ~LineSkipped(Cur(w))
  /\ IF DigitalWriteAllowed(pins, Cur(w).pin)
       THEN /\ pins' = DigitalWriteState(pins, Cur(w).pin, Cur(w).word)
            /\ thr' = [thr EXCEPT ![w].pc = "dw_stamp"]
       ELSE /\ pins' = pins
            /\ thr' = [thr EXCEPT ![w] = NextLine(@)]
  /\ UNCHANGED << timers, serial, simulation_time, sim_running, speed_var, sim_thread,
                  has_code, setup_code, loop_code, obs, join_rem, gui_events, code_text >>

arduino_digitalWrite_stamp(w) ==
  /\ thr[w].pc = "dw_stamp"
  /\ pins' = DigitalWriteStamp(pins, Cur(w).pin, simulation_time)
  /\ thr' = [thr EXCEPT ![w] = NextLine(@)]
  /\ UNCHANGED << timers, serial, simulation_time, sim_running, speed_var, sim_thread,
                  has_code, setup_code, loop_code, obs, join_rem, gui_events, code_text >>

\* arduino_analogWrite returning early, as arduino_digitalWrite does, unless
\* the pin is an output
AnalogWriteValue_OutputOnly(ps, pin, value) ==
  IF ps[pin].mode = "OUTPUT" THEN [ps EXCEPT ![pin].pwm_value = Clamp(value)] ELSE ps

\* arduino_analogWrite: self.pins[pin].pwm_value = max(0, min(255, value))
AnalogWriteValue(ps, pin, value) == [ps EXCEPT ![pin].pwm_value = Clamp(value)]

arduino_analogWrite(w) ==
  /\ AtLine(w, "analogWrite")
  /\ ~LineSkipped(Cur(w))
  /\ IF Cur(w).pin \in DOMAIN pins
       THEN /\ pins' = AnalogWriteValue(pins, Cur(w).pin, Cur(w).num)
            /\ thr' = [thr EXCEPT ![w].pc = "aw_enable"]
       ELSE /\ pins' = pins
            /\ thr' = [thr EXCEPT ![w] = NextLine(@)]
  /\ UNCHANGED << timers, serial, simulation_time, sim_running, speed_var, sim_thread,
                  has_code, setup_code, loop_code, obs, join_rem, gui_events, code_text >>

arduino_analogWrite_enable(w) ==
  /\ thr[w].pc = "aw_enable"
  /\ pins' = [pins EXCEPT ![Cur(w).pin].pwm_enabled = TRUE]
  /\ thr' = [thr EXCEPT ![w] = NextLine(@)]
  /\ UNCHANGED << timers, serial, simulation_time, sim_running, speed_var, sim_thread,
                  has_code, setup_code, loop_code, obs, join_rem, gui_events, code_text >>

\* serial_output inserting at the front of the log
TxAppend_Front(ser, text) == [ser EXCEPT !.tx_buffer = << text >> \o @]

\* serial_output: self.serial.tx_buffer.append(text)
TxAppend(ser, text) == [ser EXCEPT !.tx_buffer = Append(@, text)]

\* serial_output counting entries instead of characters
TxCount_Entries(ser, read, text) == [ser EXCEPT !.tx_count = read + 1]

\* serial_output: self.serial.tx_count += len(text), from the value read
TxCount(ser, read, text) == [ser EXCEPT !.tx_count = read + Len(text)]

\* arduino_serial_begin: self.serial.baud_rate = baud
arduino_serial_begin(w) ==
  /\ AtLine(w, "Serial.begin")
  /\ ~LineSkipped(Cur(w))
  /\ serial' = [serial EXCEPT !.baud_rate = Cur(w).num]
  /\ thr' = [thr EXCEPT ![w].pc = "so_append", ![w].text = BeginBanner(Cur(w).num)]
  /\ UNCHANGED << pins, timers, simulation_time, sim_running, speed_var, sim_thread,
                  has_code, setup_code, loop_code, obs, join_rem, gui_events, code_text >>

\* arduino_serial_begin: the serial_output call, up to the append
arduino_serial_begin_output(w) ==
  /\ thr[w].pc = "so_append"
  /\ serial' = TxAppend(serial, thr[w].text)
  /\ thr' = [thr EXCEPT ![w].pc = "so_load"]
  /\ UNCHANGED << pins, timers, simulation_time, sim_running, speed_var, sim_thread,
                  has_code, setup_code, loop_code, obs, join_rem, gui_events, code_text >>

\* The text arduino_serial_println / arduino_serial_print pass to serial_output
PrintText(l) == IF l.fn = "Serial.println" THEN l.word \o "\n" ELSE l.word

arduino_serial_print(w) ==
  /\ \/ AtLine(w, "Serial.println")
     \/ AtLine(w, "Serial.print")
  /\ serial' = TxAppend(serial, PrintText(Cur(w)))
  /\ thr' = [thr EXCEPT ![w].pc = "so_load", ![w].text = PrintText(Cur(w))]
  /\ UNCHANGED << pins, timers, simulation_time, sim_running, speed_var, sim_thread,
                  has_code, setup_code, loop_code, obs, join_rem, gui_events, code_text >>

\* serial_output: the read half of "tx_count += len(text)"
serial_output_load(w) ==
  /\ thr[w].pc = "so_load"
  /\ thr' = [thr EXCEPT ![w].pc = "so_store", ![w].tmp = serial.tx_count]
  /\ UNCHANGED << registry, sim_running, speed_var, sim_thread, has_code, setup_code,
                  loop_code, obs, join_rem, gui_events, code_text >>

\* serial_output: the write half of "tx_count += len(text)"
serial_output_store(w) ==
  /\ thr[w].pc = "so_store"
  /\ serial' = TxCount(serial, thr[w].tmp, thr[w].text)
  /\ thr' = [thr EXCEPT ![w] = AfterOutput(@)]
  /\ UNCHANGED << pins, timers, simulation_time, sim_running, speed_var, sim_thread,
                  has_code, setup_code, loop_code, obs, join_rem, gui_events, code_text >>

\* arduino_delay adding the slept time, actual_delay, to simulated time
DelaySeconds_Actual(ms, s) == ActualDelay(ms, s) \div 1000

\* arduino_delay: the amount added to simulated time, delay_seconds = ms / 1000.0
\* (in ms); the speed read from speed_var does not enter it
DelaySeconds(ms, s) == ms

\* arduino_delay up to time.sleep; without a sleep, up to the read half of
\* "self.simulation_time += delay_seconds"
arduino_delay(w) ==
  /\ AtLine(w, "delay")
  /\ ~LineSkipped(Cur(w))
  /\ IF ActualDelay(Cur(w).num, speed_var) > SleepThreshold
       THEN thr' = [thr EXCEPT ![w].pc = "sleep",
                               ![w].sleep_rem = ActualDelay(Cur(w).num, speed_var)]
       ELSE thr' = [thr EXCEPT ![w].pc = "delay_store", ![w].tmp = simulation_time]
  /\ UNCHANGED << registry, sim_running, speed_var, sim_thread, has_code, setup_code,
                  loop_code, obs, join_rem, gui_events, code_text >>

\* time.sleep(actual_delay) returns; the read half of the += follows
arduino_delay_wake(w) ==
  /\ thr[w].pc = "sleep"
  /\ thr[w].sleep_rem = 0
  /\ thr' = [thr EXCEPT ![w].pc = "delay_store", ![w].tmp = simulation_time]
  /\ UNCHANGED << registry, sim_running, speed_var, sim_thread, has_code, setup_code,
                  loop_code, obs, join_rem, gui_events, code_text >>

\* the write half of "self.simulation_time += delay_seconds"
arduino_delay_store(w) ==
  /\ thr[w].pc = "delay_store"
  /\ simulation_time' = thr[w].tmp + DelaySeconds(Cur(w).num, speed_var)
  /\ thr' = [thr EXCEPT ![w] = NextLine(@)]
  /\ UNCHANGED << pins, timers, serial, sim_running, speed_var, sim_thread,
                  has_code, setup_code, loop_code, obs, join_rem, gui_events, code_text >>

\* execute_setup after parse_and_execute_code: serial_output of the banner,
\* up to the append
execute_setup_done(w) ==
  /\ thr[w].pc = "line"
  /\ thr[w].phase = "setup"
  /\ thr[w].idx > Len(thr[w].lines)
  /\ serial' = TxAppend(serial, SetupBanner)
  /\ thr' = [thr EXCEPT ![w].pc = "so_load", ![w].text = SetupBanner]
  /\ UNCHANGED << pins, timers, simulation_time, sim_running, speed_var, sim_thread,
                  has_code, setup_code, loop_code, obs, join_rem, gui_events, code_text >>

\* a loop that never looks at the flag
WhileTest_Always(running) == TRUE

\* simulation_loop: the test of "while self.sim_running"
WhileTest(running) == running

\* simulation_loop: "while self.sim_running"; a true test is followed by
\* start_time = time.time() and execute_loop, which splits self.loop_code
simulation_loop_while(w) ==
  /\ thr[w].pc = "while"
  /\ IF WhileTest(sim_running)
       THEN /\ thr[w].loop_count < MaxLoops
            /\ thr' = [thr EXCEPT ![w] = [@ EXCEPT !.pc = "line", !.phase = "loop",
                                                   !.lines = loop_code, !.idx = 1,
                                                   !.loop_time = 0]]
       ELSE thr' = [thr EXCEPT ![w].pc = "finally"]
  /\ UNCHANGED << registry, sim_running, speed_var, sim_thread, has_code, setup_code,
                  loop_code, obs, join_rem, gui_events, code_text >>

\* simulation_loop after execute_loop: loop_count += 1 and the read half of
\* "self.simulation_time += 0.001"
simulation_loop_count(w) ==
  /\ thr[w].pc = "line"
  /\ thr[w].phase = "loop"
  /\ thr[w].idx > Len(thr[w].lines)
  /\ thr' = [thr EXCEPT ![w].pc = "tick_store", ![w].loop_count = @ + 1,
                        ![w].tmp = simulation_time]
  /\ UNCHANGED << registry, sim_running, speed_var, sim_thread, has_code, setup_code,
                  loop_code, obs, join_rem, gui_events, code_text >>

\* simulation_loop without its per-iteration increment
TickTime_None(read) == read

\* simulation_loop adding a second where it adds a millisecond
TickTime_Seconds(read) == read + 1000

\* simulation_loop: simulated time after the per-iteration increment
TickTime(read) == read + LoopTick

\* simulation_loop: the write half of "self.simulation_time += 0.001", then
\* the pacing test "if loop_time < target_time: time.sleep(...)"
simulation_loop_tick(w) ==
  /\ thr[w].pc = "tick_store"
  /\ simulation_time' = TickTime(thr[w].tmp)
  /\ IF thr[w].loop_time < TargetTime(speed_var)
       THEN thr' = [thr EXCEPT ![w].pc = "pace", ![w].tmp = 0,
                               ![w].sleep_rem = TargetTime(speed_var) - thr[w].loop_time]
       ELSE thr' = [thr EXCEPT ![w].pc = "while", ![w].tmp = 0]
  /\ UNCHANGED << pins, timers, serial, sim_running, speed_var, sim_thread,
                  has_code, setup_code, loop_code, obs, join_rem, gui_events, code_text >>

\* simulation_loop: the pacing sleep returns
simulation_loop_paced(w) ==
  /\ thr[w].pc = "pace"
  /\ thr[w].sleep_rem = 0
  /\ thr' = [thr EXCEPT ![w].pc = "while"]
  /\ UNCHANGED << registry, sim_running, speed_var, sim_thread, has_code, setup_code,
                  loop_code, obs, join_rem, gui_events, code_text >>

\* simulation_loop: "finally: self.sim_running = False"; the thread ends
simulation_loop_finally(w) ==
  /\ thr[w].pc = "finally"
  /\ sim_running' = FALSE
  /\ thr' = [thr EXCEPT ![w] = DeadThread]
  /\ UNCHANGED << registry, speed_var, sim_thread, has_code, setup_code,
                  loop_code, obs, join_rem, gui_events, code_text >>

\* ----------------------------------------------------------- real time
Sleeping(w) == thr[w].pc \in {"sleep", "pace"} /\ thr[w].sleep_rem > 0

Joining == obs.pc = "join" /\ join_rem > 0 /\ Alive(sim_thread)

\* Real time left until the next sleep or join deadline.
NextDeadline ==
  LET S == {thr[w].sleep_rem : w \in {v \in Threads : Sleeping(v)}}
             \cup (IF Joining THEN {join_rem} ELSE {})
  IN CHOOSE d \in S : \A e \in S : d <= e

\* Real time passes, up to the next deadline, while every live thread is
\* inside time.sleep and the GUI thread is idle or inside join; computation
\* takes no time.
Elapse ==
  /\ \A w \in Threads : Alive(w) => Sleeping(w)
  /\ \E w \in Threads : Sleeping(w)
  /\ obs.pc = "idle" \/ Joining
  /\ LET delta == NextDeadline IN
       /\ thr' = [w \in Threads |->
                    IF Sleeping(w)
                      THEN [thr[w] EXCEPT !.sleep_rem = @ - delta,
                                          !.loop_time = Min(LoopTarget, @ + delta)]
                      ELSE thr[w]]
       /\ join_rem' = IF Joining THEN join_rem - delta ELSE join_rem
  /\ UNCHANGED << registry, sim_running, speed_var, sim_thread, has_code, setup_code,
                  loop_code, obs, gui_events, code_text >>

\* ------------------------------------------------------- GUI thread steps
\* The Compile button: extract_arduino_functions takes the two routine
\* bodies out of the editor's text
compile_code ==
  /\ obs.pc = "idle"
  /\ setup_code' = code_text.setup
  /\ loop_code' = code_text.loop
  /\ has_code' = TRUE
  /\ UNCHANGED << registry, sim_running, speed_var, sim_thread, thr, obs, join_rem,
                  gui_events, code_text >>

\* Where the GUI thread continues when stop_simulation returns.
AfterStop(cmd) ==
  IF cmd = "stop" THEN IdleObserver ELSE [IdleObserver EXCEPT !.pc = "reset_pins", !.cmd = cmd]

\* stop_simulation up to join(timeout=1.0), called for command cmd
StopBody(cmd) ==
  /\ sim_running' = FALSE
  /\ IF sim_thread # 0 /\ Alive(sim_thread)
       THEN /\ obs' = [IdleObserver EXCEPT !.pc = "join", !.cmd = cmd]
            /\ join_rem' = JoinTimeout
       ELSE /\ obs' = AfterStop(cmd)
            /\ join_rem' = 0
  /\ gui_events < MaxGuiEvents
  /\ gui_events' = gui_events + 1
  /\ UNCHANGED << registry, speed_var, sim_thread, has_code, setup_code, loop_code, thr,
                  code_text >>

\* The Stop button
stop_simulation ==
  /\ obs.pc = "idle"
  /\ StopBody("stop")

\* The Reset button: reset_simulation begins with stop_simulation
reset_simulation ==
  /\ obs.pc = "idle"
  /\ StopBody("reset")

\* run_code without its test of sim_running
RunRejected_Uncompiled == ~has_code

\* run_code refuses to start: not compiled, or already running
RunRejected == ~has_code \/ sim_running

\* The Run button, refused
run_code_rejected ==
  /\ obs.pc = "idle"
  /\ RunRejected
  /\ UNCHANGED vars

\* The Run button: run_code up to the join inside reset_simulation
run_code ==
  /\ obs.pc = "idle"
  /\ ~RunRejected
  /\ sim_thread < MaxThreads
  /\ StopBody("run")

\* join(timeout=1.0) returns: the thread has ended, or the timeout expired
join_return ==
  /\ obs.pc = "join"
  /\ ~Alive(sim_thread) \/ join_rem = 0
  /\ obs' = AfterStop(obs.cmd)
  /\ join_rem' = 0
  /\ UNCHANGED << registry, sim_running, speed_var, sim_thread, has_code, setup_code,
                  loop_code, thr, gui_events, code_text >>

\* a reset that also puts the modes back to those of init_gpio_pins
ResetPins_Modes(ps) == InitPins

\* reset_simulation: the loop over self.pins.values()
ResetPins(ps) ==
  [n \in DOMAIN ps |->
     [ps[n] EXCEPT !.state = "LOW",
                   !.analog_value = IF ps[n].number >= NumDigitalPins THEN AnalogDefault ELSE 0,
                   !.pwm_value = 0, !.pwm_enabled = FALSE, !.last_change = 0]]

\* reset_simulation: the loop over self.timers.values()
ResetTimers(ts) ==
  [t \in DOMAIN ts |->
     [ts[t] EXCEPT !.counter_value = 0, !.overflow_count = 0, !.frequency = 0,
                   !.duty_cycle = 0]]

\* a reset that leaves the received lines in rx_buffer
ResetSerial_KeepRx(ser) == [ser EXCEPT !.tx_buffer = << >>, !.tx_count = 0, !.rx_count = 0]

\* reset_simulation: the serial buffers and counts
ResetSerial(ser) ==
  [ser EXCEPT !.tx_buffer = << >>, !.rx_buffer = << >>, !.tx_count = 0, !.rx_count = 0]

reset_simulation_pins ==
  /\ obs.pc = "reset_pins"
  /\ pins' = ResetPins(pins)
  /\ timers' = ResetTimers(timers)
  /\ obs' = [obs EXCEPT !.pc = "reset_serial"]
  /\ UNCHANGED << serial, simulation_time, sim_running, speed_var, sim_thread, has_code,
                  setup_code, loop_code, thr, join_rem, gui_events, code_text >>

reset_simulation_serial ==
  /\ obs.pc = "reset_serial"
  /\ serial' = ResetSerial(serial)
  /\ obs' = [obs EXCEPT !.pc = "reset_time"]
  /\ UNCHANGED << pins, timers, simulation_time, sim_running, speed_var, sim_thread,
                  has_code, setup_code, loop_code, thr, join_rem, gui_events, code_text >>

\* reset_simulation: self.simulation_time = 0.0, then the return
reset_simulation_time ==
  /\ obs.pc = "reset_time"
  /\ simulation_time' = 0
  /\ obs' = IF obs.cmd = "run" THEN [obs EXCEPT !.pc = "run_start"] ELSE IdleObserver
  /\ UNCHANGED << pins, timers, serial, sim_running, speed_var, sim_thread, has_code,
                  setup_code, loop_code, thr, join_rem, gui_events, code_text >>

\* run_code after reset_simulation: the flag is set and the thread started
run_code_start ==
  /\ obs.pc = "run_start"
  /\ sim_running' = TRUE
  /\ thr' = [thr EXCEPT ![sim_thread + 1] = [DeadThread EXCEPT !.pc = "start"]]
  /\ sim_thread' = sim_thread + 1
  /\ obs' = IdleObserver
  /\ UNCHANGED << registry, speed_var, has_code, setup_code, loop_code, join_rem,
                  gui_events, code_text >>

\* The speed combobox
set_speed(s) ==
  /\ obs.pc = "idle"
  /\ gui_events < MaxGuiEvents
  /\ gui_events' = gui_events + 1
  /\ s # speed_var
  /\ speed_var' = s
  /\ UNCHANGED << registry, sim_running, sim_thread, has_code, setup_code, loop_code,
                  thr, obs, join_rem, code_text >>

\* set_pin_mode: the pins after the call
SetPinModePins(ps, pin, mode) ==
  IF pin \in DOMAIN ps /\ mode \in Modes THEN [ps EXCEPT ![pin].mode = mode] ELSE ps

\* The mode combobox of a digital pin
set_pin_mode(pin, mode) ==
  /\ obs.pc = "idle"
  /\ gui_events < MaxGuiEvents
  /\ gui_events' = gui_events + 1
  /\ pins' = SetPinModePins(pins, pin, mode)
  /\ UNCHANGED << timers, serial, simulation_time, sim_running, speed_var, sim_thread,
                  has_code, setup_code, loop_code, thr, obs, join_rem, code_text >>

\* set_pin_state without its test of the mode
SetPinStatePins_AnyMode(ps, pin, high) ==
  IF pin \in DOMAIN ps
    THEN [ps EXCEPT ![pin].state = IF high THEN "HIGH" ELSE "LOW"]
    ELSE ps

\* set_pin_state: the pins after the call
SetPinStatePins(ps, pin, high) ==
  IF pin \in DOMAIN ps /\ ps[pin].mode = "OUTPUT"
    THEN [ps EXCEPT ![pin].state = IF high THEN "HIGH" ELSE "LOW"]
    ELSE ps

\* The HIGH / LED checkbutton of a digital pin
set_pin_state(pin, high) ==
  /\ obs.pc = "idle"
  /\ gui_events < MaxGuiEvents
  /\ gui_events' = gui_events + 1
  /\ pins' = SetPinStatePins(pins, pin, high)
  /\ UNCHANGED << timers, serial, simulation_time, sim_running, speed_var, sim_thread,
                  has_code, setup_code, loop_code, thr, obs, join_rem, code_text >>

\* create_analog_tab.update_analog: the scale of an analog pin
update_analog(pin, value) ==
  /\ obs.pc = "idle"
  /\ gui_events < MaxGuiEvents
  /\ gui_events' = gui_events + 1
  /\ pins' = IF pin \in DOMAIN pins THEN [pins EXCEPT ![pin].analog_value = value] ELSE pins
  /\ UNCHANGED << timers, serial, simulation_time, sim_running, speed_var, sim_thread,
                  has_code, setup_code, loop_code, thr, obs, join_rem, code_text >>

\* send_serial_input with an empty entry
send_serial_input_empty ==
  /\ obs.pc = "idle"
  /\ UNCHANGED vars

\* send_serial_input up to the append inside serial_output
send_serial_input(input_text) ==
  /\ obs.pc = "idle"
  /\ input_text # ""
  /\ gui_events < MaxGuiEvents
  /\ gui_events' = gui_events + 1
  /\ serial' = TxAppend([serial EXCEPT !.rx_buffer = Append(@, input_text \o "\n")],
                        ">> " \o input_text \o "\n")
  /\ obs' = [IdleObserver EXCEPT !.pc = "ssi_load", !.text = ">> " \o input_text \o "\n"]
  /\ UNCHANGED << pins, timers, simulation_time, sim_running, speed_var, sim_thread,
                  has_code, setup_code, loop_code, thr, join_rem, code_text >>

\* send_serial_input: the read half of "tx_count += len(text)"
send_serial_input_load ==
  /\ obs.pc = "ssi_load"
  /\ obs' = [obs EXCEPT !.pc = "ssi_store", !.tmp = serial.tx_count]
  /\ UNCHANGED << registry, sim_running, speed_var, sim_thread, has_code, setup_code,
                  loop_code, thr, join_rem, gui_events, code_text >>

\* send_serial_input: the write half of "tx_count += len(text)"
send_serial_input_store ==
  /\ obs.pc = "ssi_store"
  /\ serial' = TxCount(serial, obs.tmp, obs.text)
  /\ obs' = IdleObserver
  /\ UNCHANGED << pins, timers, simulation_time, sim_running, speed_var, sim_thread,
                  has_code, setup_code, loop_code, thr, join_rem, gui_events, code_text >>

\* update_gui, every 100 ms on the GUI thread: update_pin_displays reads
\* mode and state of every digital pin into the widgets, which are not part
\* of the state kept here
update_pin_displays ==
  /\ obs.pc = "idle"
  /\ UNCHANGED vars

\* ------------------------------------------------------- specifications
\* What a simulation thread does while it runs the routines.
InterpreterStep(w) ==
  \/ execute_setup(w)
  \/ skip_line(w)
  \/ arduino_pinMode(w)
  \/ arduino_digitalWrite(w)
  \/ arduino_digitalWrite_stamp(w)
  \/ arduino_analogWrite(w)
  \/ arduino_analogWrite_enable(w)
  \/ arduino_serial_begin(w)
  \/ arduino_serial_begin_output(w)
  \/ arduino_serial_print(w)
  \/ serial_output_load(w)
  \/ serial_output_store(w)
  \/ arduino_delay(w)
  \/ arduino_delay_wake(w)
  \/ arduino_delay_store(w)
  \/ execute_setup_done(w)
  \/ simulation_loop_while(w)
  \/ simulation_loop_count(w)
  \/ simulation_loop_tick(w)
  \/ simulation_loop_paced(w)

ThreadStep(w) ==
  \/ InterpreterStep(w)
  \/ simulation_loop_finally(w)

Lifecycle ==
  \/ stop_simulation
  \/ reset_simulation
  \/ run_code_rejected
  \/ run_code
  \/ join_return
  \/ reset_simulation_pins
  \/ reset_simulation_serial
  \/ reset_simulation_time
  \/ run_code_start

Widgets ==
  \/ \E s \in ObsSpeeds : set_speed(s)
  \/ \E m \in ObsModes : set_pin_mode(m.pin, m.mode)
  \/ \E h \in ObsStates : set_pin_state(h.pin, h.high)
  \/ \E a \in ObsAnalog : update_analog(a.pin, a.value)
  \/ send_serial_input_empty
  \/ \E t \in ObsTexts : send_serial_input(t)
  \/ send_serial_input_load
  \/ send_serial_input_store
  \/ update_pin_displays

Next ==
  \/ compile_code
  \/ Lifecycle
  \/ Widgets
  \/ \E w \in Threads : ThreadStep(w)
  \/ Elapse

Spec == Init /\ [][Next]_vars

\* One run that nobody disturbs: the routines are compiled and started, and
\* from then on only the speed combobox is used.  The scenarios of the
\* interpreter are stated for such runs.
NextRun ==
  \/ compile_code
  \/ run_code
  \/ reset_simulation_pins
  \/ reset_simulation_serial
  \/ reset_simulation_time
  \/ run_code_start
  \/ \E s \in ObsSpeeds : set_speed(s)
  \/ \E w \in Threads : InterpreterStep(w)
  \/ Elapse

SpecRun == Init /\ [][NextRun]_vars

\* Runs that the Stop button may end: the routines are compiled, started and
\* stopped, possibly more than once, at the speed 1x of construction.
NextStop ==
  \/ compile_code
  \/ run_code
  \/ stop_simulation
  \/ join_return
  \/ reset_simulation_pins
  \/ reset_simulation_serial
  \/ reset_simulation_time
  \/ run_code_start
  \/ \E w \in Threads : ThreadStep(w)
  \/ Elapse

\* What the GUI thread does on its own once a handler has begun.
HandlerStep ==
  \/ join_return
  \/ reset_simulation_pins
  \/ reset_simulation_serial
  \/ reset_simulation_time
  \/ run_code_start

\* The operating system schedules every thread that can run, every
\* time.sleep and join(timeout) comes to its end, and a handler of the GUI
\* thread runs to its return.
Fairness ==
  /\ \A w \in Threads : WF_vars(ThreadStep(w))
  /\ WF_vars(Elapse)
  /\ WF_vars(HandlerStep)

SpecStop == Init /\ [][NextStop]_vars /\ Fairness

\* ------------------------------------------------------------ properties
\* The pin named by the line a thread is executing.
CurPin(w) == Cur(w).pin

\* The level digitalWrite stores for the word written in the routine.
Level(word) == IF word = "HIGH" THEN "HIGH" ELSE "LOW"

\* The line a thread finished last in its current pass over the lines.
Prev(w) == thr[w].lines[thr[w].idx - 1]
Finished(w, f) ==
  /\ thr[w].pc = "line"
  /\ thr[w].idx > 1
  /\ thr[w].idx - 1 <= Len(thr[w].lines)
  /\ Prev(w).fn = f

\* C1 as stated: an interpreter write (digitalWrite or analogWrite) to a known
\* pin whose mode is not OUTPUT leaves the pin's state and pwm_value unchanged.
C1_WriteNeedsOutput ==
  [][\A w \in Threads :
       /\ arduino_digitalWrite(w) \/ arduino_analogWrite(w)
       /\ CurPin(w) \in Pins
       /\ pins[CurPin(w)].mode # "OUTPUT"
       => /\ pins'[CurPin(w)].state = pins[CurPin(w)].state
          /\ pins'[CurPin(w)].pwm_value = pins[CurPin(w)].pwm_value]_vars

\* C1 amended: digitalWrite to a known pin whose mode is not OUTPUT leaves the
\* pin's state and pwm_value unchanged; analogWrite to such a pin leaves its
\* state unchanged and stores the clamped duty in pwm_value.
C1_DigitalWriteNeedsOutput ==
  [][\A w \in Threads :
       /\ arduino_digitalWrite(w) /\ CurPin(w) \in Pins /\ pins[CurPin(w)].mode # "OUTPUT"
          => /\ pins'[CurPin(w)].state = pins[CurPin(w)].state
             /\ pins'[CurPin(w)].pwm_value = pins[CurPin(w)].pwm_value
       /\ arduino_analogWrite(w) /\ CurPin(w) \in Pins /\ pins[CurPin(w)].mode # "OUTPUT"
          => /\ pins'[CurPin(w)].state = pins[CurPin(w)].state
             /\ pins'[CurPin(w)].pwm_value = Max(0, Min(255, Cur(w).num))]_vars

\* A thread has just passed digitalWrite(3, HIGH) with pin 3 in INPUT_PULLUP
\* mode, after analogWrite(10, 128) stored 128 on pin 10 in INPUT mode.
C1_Witness ==
  \E w \in Threads :
    /\ Finished(w, "digitalWrite")
    /\ Prev(w).pin = 3
    /\ pins[3].mode = "INPUT_PULLUP"
    /\ pins[3].state = "LOW"
    /\ pins[10].mode = "INPUT"
    /\ pins[10].pwm_value = 128

\* C4: the transmit log only grows at its end, one entry at a time, until
\* reset_simulation clears it, and every print appends its text as the last
\* entry at the moment it executes.
C4_TransmitLogFifo ==
  [][/\ \/ serial'.tx_buffer = serial.tx_buffer
        \/ /\ Len(serial'.tx_buffer) = Len(serial.tx_buffer) + 1
           /\ SubSeq(serial'.tx_buffer, 1, Len(serial.tx_buffer)) = serial.tx_buffer
        \/ /\ reset_simulation_serial
           /\ serial'.tx_buffer = << >>
     /\ \A w \in Threads :
          arduino_serial_print(w)
            => serial'.tx_buffer = serial.tx_buffer \o << PrintText(Cur(w)) >>]_vars

\* The log of an undisturbed run of the serial routine after two loop
\* iterations: setup emissions first, then the loop's, in execution order.
C4_Witness ==
  serial.tx_buffer = << "Serial communication started at 9600 baud\n", "hi", "hi",
                        "Arduino setup completed!\n", "on\n", "on\n" >>

\* C10: digitalWrite to a known pin whose mode is INPUT or INPUT_PULLUP changes
\* no pin; on a pin whose mode is OUTPUT it stores the written level in state
\* and then the current simulated time in last_change, and changes no other pin.
C10_DigitalWriteEffect ==
  [][\A w \in Threads :
       /\ arduino_digitalWrite(w) /\ CurPin(w) \in Pins
          => IF pins[CurPin(w)].mode \in {"INPUT", "INPUT_PULLUP"}
               THEN pins' = pins
               ELSE /\ pins'[CurPin(w)].state = Level(Cur(w).word)
                    /\ \A q \in Pins \ {CurPin(w)} : pins'[q] = pins[q]
       /\ arduino_digitalWrite_stamp(w)
          => /\ pins'[CurPin(w)].last_change = simulation_time
             /\ pins'[CurPin(w)].state = pins[CurPin(w)].state
             /\ \A q \in Pins \ {CurPin(w)} : pins'[q] = pins[q]]_vars

\* Scenario B has run (pin 2 is INPUT and still LOW after digitalWrite(2, HIGH))
\* and the second loop iteration has written pin 13, an OUTPUT, at time 1 ms.
C10_Witness ==
  \E w \in Threads :
    /\ code_text = ProgInputWrite
    /\ thr[w].phase = "loop"
    /\ Finished(w, "digitalWrite")
    /\ Prev(w).pin = 13
    /\ pins[2].mode = "INPUT"
    /\ pins[2].state = "LOW"
    /\ pins[13].state = "HIGH"
    /\ pins[13].last_change = 1

RECURSIVE DelaySum(_, _)
\* The milliseconds the delay lines among the first n lines ask for.
DelaySum(lines, n) ==
  IF n = 0 THEN 0
  ELSE DelaySum(lines, n - 1)
         + (IF lines[n].fn = "delay" /\ lines[n].num >= 0 THEN lines[n].num ELSE 0)

\* Simulated time as the position of a thread in an undisturbed run gives it:
\* every finished delay, and 1 ms for every loop iteration whose increment
\* has been stored.  Neither the speed nor the real time slept enters it.
TimeAt(w) ==
  LET t == thr[w]
      whole(lines) == DelaySum(lines, Len(lines))
  IN  IF t.phase = "setup"
        THEN DelaySum(t.lines, Min(t.idx - 1, Len(t.lines)))
        ELSE whole(setup_code)
               + (CASE t.pc = "tick_store" ->
                         (t.loop_count - 1) * (whole(t.lines) + 1) + whole(t.lines)
                    [] t.pc \in {"pace", "while"} ->
                         t.loop_count * (whole(t.lines) + 1)
                    [] OTHER ->
                         t.loop_count * (whole(t.lines) + 1)
                           + DelaySum(t.lines, Min(t.idx - 1, Len(t.lines))))

\* C2: in an undisturbed run every delay(d) adds exactly d ms to simulated
\* time, whatever the speed, and simulated time is at every point the value
\* the thread's position alone determines, so that runs which differ only in
\* the speed chosen agree on it.
C2_DelayAddsExactly ==
  /\ [][\A w \in Threads :
          arduino_delay_store(w) => simulation_time' = simulation_time + Cur(w).num]_vars
  /\ [](\A w \in Threads :
          Alive(w) /\ thr[w].pc # "start" => simulation_time = TimeAt(w))

\* delay(2) has been executed at speed 10x, where it does not sleep, and the
\* 2 ms are on the clock.
C2_Witness ==
  \E w \in Threads :
    /\ speed_var = "10x"
    /\ Finished(w, "delay")
    /\ Prev(w).num = 2
    /\ thr[w].loop_count = 0
    /\ simulation_time = 2

\* The blink routine has finished two loop iterations in an undisturbed run.
TwoIterationsDone(w) ==
  /\ code_text = ProgBlink
  /\ thr[w].phase = "loop"
  /\ thr[w].loop_count = 2
  /\ thr[w].pc \in {"tick_store", "pace", "while"}

\* C3 as stated: when two loop iterations of the blink routine have completed,
\* simulated time is exactly 4000 ms and pin 13 is LOW.
C3_ScenarioA_Exact4s ==
  \A w \in Threads :
    TwoIterationsDone(w) => simulation_time = 4000 /\ pins[13].state = "LOW"

\* C3 amended: when the last operation of the second loop iteration has been
\* executed simulated time is 4001 ms, and once that iteration's 1 ms
\* increment is stored it is 4002 ms; pin 13 is LOW throughout.
C3_ScenarioA ==
  \A w \in Threads :
    TwoIterationsDone(w)
      => /\ pins[13].state = "LOW"
         /\ pins[13].mode = "OUTPUT"
         /\ simulation_time = IF thr[w].pc = "tick_store" THEN 4001 ELSE 4002

C3_Witness ==
  \E w \in Threads : TwoIterationsDone(w) /\ thr[w].pc = "while" /\ pins[13].last_change = 3001

\* The third setup line of the serial routine has just been finished.
ThreeLinesDone(w) ==
  /\ code_text = ProgSerial
  /\ thr[w].phase = "setup"
  /\ thr[w].pc = "line"
  /\ thr[w].idx = 4

\* C5 as stated: after Serial.begin(9600) and two Serial.print("hi") the log
\* is exactly <<"hi", "hi">> and tx_count is 4.
C5_ScenarioC_OnlyEmissions ==
  \A w \in Threads :
    ThreeLinesDone(w) => serial.tx_buffer = << "hi", "hi" >> /\ serial.tx_count = 4

\* C5 amended: after Serial.begin(9600) and two Serial.print("hi") the log is
\* the 42-character line Serial.begin writes followed by "hi" and "hi", and
\* tx_count is 46: every emission appends its text and adds its length, and
\* so does opening the channel.
C5_ScenarioC ==
  \A w \in Threads :
    /\ ThreeLinesDone(w)
       => /\ serial.tx_buffer
               = << "Serial communication started at 9600 baud\n", "hi", "hi" >>
          /\ serial.tx_count = 46
          /\ serial.baud_rate = 9600
    /\ code_text = ProgSerial /\ thr[w].phase = "setup" /\ thr[w].pc = "line"
         /\ thr[w].idx = 2
       => /\ serial.tx_buffer = << "Serial communication started at 9600 baud\n" >>
          /\ serial.tx_count = 42

C5_Witness == \E w \in Threads : ThreeLinesDone(w) /\ Len(serial.tx_buffer) = 3

\* Serial.begin is among the first n lines.
HasBegin(lines, n) == \E i \in 1..n : lines[i].fn = "Serial.begin" /\ lines[i].num >= 0

\* A thread has executed a Serial.begin line since it was started.
OpenedBefore(w) ==
  LET t == thr[w] IN
    \/ HasBegin(t.lines, Min(t.idx - 1, Len(t.lines)))
    \/ t.phase = "loop" /\ HasBegin(setup_code, Len(setup_code))
    \/ t.phase = "loop" /\ t.loop_count > 1 /\ HasBegin(t.lines, Len(t.lines))

\* C6: Serial.print or Serial.println executed by a thread that has not
\* executed Serial.begin since it was started changes neither the transmit
\* log nor tx_count.
C6_EmitBeforeOpenIsNoOp ==
  [][\A w \in Threads :
       arduino_serial_print(w) /\ ~OpenedBefore(w) => serial' = serial]_vars

\* Every field reset_simulation is to have restored when it returns.
ResetState ==
  /\ \A n \in Pins :
       /\ pins[n].state = "LOW"
       /\ pins[n].pwm_enabled = FALSE
       /\ pins[n].pwm_value = 0
       /\ pins[n].last_change = 0
       /\ pins[n].analog_value = IF n >= 14 THEN 512 ELSE 0
  /\ \A t \in Timers : timers[t].counter_value = 0 /\ timers[t].overflow_count = 0
  /\ serial.tx_buffer = << >> /\ serial.rx_buffer = << >>
  /\ serial.tx_count = 0 /\ serial.rx_count = 0
  /\ simulation_time = 0

\* C7: whatever state reset_simulation is called in, when it returns every
\* pin is LOW with PWM off, duty 0, last_change 0 and its default analog
\* value, every timer's counter and overflow count are 0, both serial buffers
\* are empty with counts 0, and simulated time is 0.
C7_ResetRestoresDefaults ==
  [][reset_simulation_time => ResetState']_vars

\* C8: pwm_value is always within 0..255, and executing an analogWrite line
\* for a known pin leaves the written value clamped in the pin: 255 for a
\* value above 255, 0 for a value below 0, the value itself otherwise.
C8_PwmClamped ==
  /\ [](\A n \in Pins : pins[n].pwm_value \in 0..255)
  /\ [][\A w \in Threads :
          (arduino_analogWrite(w) \/ skip_line(w))
            /\ Cur(w).fn = "analogWrite" /\ CurPin(w) \in Pins
          => pins'[CurPin(w)].pwm_value
               = IF Cur(w).num > 255 THEN 255 ELSE IF Cur(w).num < 0 THEN 0 ELSE Cur(w).num]_vars

\* The thread is inside the time.sleep of its delay(5000) and has been there
\* for longer than stop_simulation has waited in join: it was asleep in that
\* delay when stop_simulation was called.
AsleepSinceBeforeStop(w) ==
  /\ thr[w].pc = "sleep"
  /\ Cur(w).fn = "delay"
  /\ Cur(w).num = 5000
  /\ thr[w].sleep_rem + (JoinTimeout - join_rem) < ActualDelay(5000, speed_var)

\* C9: stop_simulation called while the thread is inside delay(5000) cuts
\* the delay short: when it returns the thread has ended, and is not still
\* asleep in that delay.
C9_StopCutsDelayShort ==
  [][join_return /\ obs.cmd = "stop" /\ AsleepSinceBeforeStop(sim_thread)
       => ~Alive(sim_thread)']_vars

\* One step of a thread from position t to position u keeps to the order
\* of simulation_loop: the setup lines from the first to the last, then the
\* loop lines from the first to the last, again and again.
InOrder(t, u) ==
  CASE t.pc = "dead" -> u.pc = "start"
    [] t.pc = "start" -> u.phase = "setup" /\ u.lines = setup_code /\ u.idx = 1
    [] t.pc = "finally" -> u.pc = "dead"
    [] t.pc = "while" ->
         IF sim_running
           THEN /\ u.pc = "line" /\ u.phase = "loop" /\ u.lines = loop_code /\ u.idx = 1
                /\ t.idx = Len(t.lines) + 1
           ELSE u.pc = "finally"
    [] OTHER ->
         /\ u.pc # "dead"
         /\ u.phase = t.phase
         /\ u.lines = t.lines
         /\ u.idx \in {t.idx, t.idx + 1}
         /\ u.idx <= Len(t.lines) + 1
         /\ u.loop_count \in {t.loop_count, t.loop_count + 1}
         /\ u.loop_count # t.loop_count => t.phase = "loop" /\ t.idx = Len(t.lines) + 1

\* C11: every thread goes through the setup lines once, in order, then
\* through the loop lines in order, starting again at the first after the
\* last; it starts no further pass once sim_running is False at the test of
\* the while, and a line changes the registry only while it is the current one.
C11_SetupThenLoops ==
  [][\A w \in Threads :
       thr'[w] # thr[w]
         => /\ InOrder(thr[w], thr'[w])
            /\ registry' # registry /\ thr[w].pc = "line" /\ thr[w].idx <= Len(thr[w].lines)
                 => thr'[w].idx = thr[w].idx + 1 \/ thr'[w].pc # "line"]_vars

\* A thread is in its second pass over the loop lines of the blink routine.
C11_Witness ==
  \E w \in Threads :
    /\ code_text = ProgBlink
    /\ thr[w].phase = "loop"
    /\ thr[w].loop_count = 1
    /\ thr[w].pc = "line"
    /\ thr[w].idx = 3
    /\ simulation_time = 3001

\* C12: the Run button with no routines compiled, or with an empty setup or
\* loop routine, starts nothing: run_code starts no thread, sim_running stays
\* False and the registry is unchanged.
C12_StartNeedsBothRoutines ==
  [][(\/ run_code_start
      \/ obs.cmd = "run" /\ (registry' # registry \/ sim_running' # sim_running))
       => has_code /\ setup_code # << >> /\ loop_code # << >>]_vars

\* The GUI thread is inside the assignments of reset_simulation.
Resetting == obs.pc \in {"reset_pins", "reset_serial", "reset_time"}

\* C13: reset_simulation called while a thread runs waits until that thread
\* has ended before it assigns anything: when its join returns the thread is
\* not alive, and no thread changes the registry between the assignments of
\* reset_simulation.
C13_ResetJoinsWorker ==
  [][/\ join_return /\ obs.cmd = "reset" => ~Alive(sim_thread)
     /\ Resetting /\ obs' = obs => registry' = registry]_vars

\* A thread is between the two assignments of arduino_digitalWrite: the pin
\* holds the level just written and still the time of an earlier change.
HalfWritten(w) ==
  /\ thr[w].pc = "dw_stamp"
  /\ pins[CurPin(w)].state = Level(Cur(w).word)
  /\ pins[CurPin(w)].last_change # simulation_time

\* C14: whenever the GUI thread can run update_pin_displays, no pin is
\* half-written: a read of the pins never finds the new level together with
\* the old time of change.
C14_NoPartialWriteSeen ==
  \A w \in Threads : obs.pc = "idle" => ~HalfWritten(w)

\* C15: whatever buttons are pressed, at most one simulation thread is alive
\* at any time.
C15_OneWorker ==
  Cardinality({w \in Threads : Alive(w)}) <= 1

\* stop_simulation set sim_running False some real time ago and has been
\* waiting in join since.
StopRequestedEarlier == ~sim_running /\ obs.pc = "join" /\ join_rem < JoinTimeout

\* C16: sim_running is looked at between the lines of the loop routine: a
\* thread that comes to a line of its loop pass after stop_simulation set
\* sim_running False does not execute it, and applies nothing more to the
\* registry.
C16_StopSeenBetweenLines ==
  [][\A w \in Threads :
       /\ thr[w].pc = "line"
       /\ thr[w].phase = "loop"
       /\ thr[w].idx <= Len(thr[w].lines)
       /\ StopRequestedEarlier
       /\ thr'[w] # thr[w]
       => registry' = registry]_vars

\* C17: pinMode on a known pin changes that pin's mode and nothing else of
\* the registry; pin 4, written HIGH as an output and then made an input,
\* still holds HIGH, and still holds it when made an output again.
C17_PinModeOnlyMode ==
  /\ [][\A w \in Threads :
          arduino_pinMode(w) /\ CurPin(w) \in Pins
            => /\ pins'[CurPin(w)]
                    = [pins[CurPin(w)] EXCEPT
                         !.mode = IF Cur(w).word \in Modes THEN Cur(w).word ELSE @]
               /\ \A n \in Pins \ {CurPin(w)} : pins'[n] = pins[n]
               /\ UNCHANGED << timers, serial, simulation_time >>]_vars
  /\ [](\A w \in Threads :
          /\ code_text = ProgModes
          /\ \/ thr[w].phase = "setup" /\ thr[w].idx >= 3
             \/ thr[w].phase = "loop"
          => pins[4].state = "HIGH")

\* Pin 4 is an output again and holds the HIGH written before it was an input.
C17_Witness ==
  \E w \in Threads :
    /\ code_text = ProgModes
    /\ thr[w].phase = "loop"
    /\ Finished(w, "pinMode")
    /\ Prev(w).pin = 4
    /\ pins[4].mode = "OUTPUT"
    /\ pins[4].state = "HIGH"
    /\ pins[4].last_change = 0

\* C18: analogWrite on a known pin stores the duty, clamped to 0..255, and
\* then sets pwm_enabled, whatever the pin's mode is; the mode, the state and
\* every other pin stay as they are.
C18_AnalogWriteAnyMode ==
  [][\A w \in Threads :
       /\ arduino_analogWrite(w) /\ CurPin(w) \in Pins
          => /\ pins'[CurPin(w)]
                  = [pins[CurPin(w)] EXCEPT
                       !.pwm_value = IF Cur(w).num > 255 THEN 255 ELSE Cur(w).num]
             /\ thr'[w].pc = "aw_enable"
       /\ arduino_analogWrite_enable(w)
          => /\ pins'[CurPin(w)] = [pins[CurPin(w)] EXCEPT !.pwm_enabled = TRUE]
             /\ \A n \in Pins \ {CurPin(w)} : pins'[n] = pins[n]]_vars

\* analogWrite has been executed on the output pin 9 and on the input pin 10.
C18_Witness ==
  /\ code_text = ProgPwm
  /\ pins[9].mode = "OUTPUT" /\ pins[9].pwm_value = 255 /\ pins[9].pwm_enabled
  /\ pins[10].mode = "INPUT" /\ pins[10].pwm_value = 128 /\ pins[10].pwm_enabled
  /\ pins[10].state = "LOW"

StateWrittenByProgram(n) ==
  \/ reset_simulation_pins
  \/ \E w \in Threads :
       arduino_digitalWrite(w) /\ CurPin(w) = n /\ pins[n].mode = "OUTPUT"

\* C20 as stated: a callback of the widgets changes no field of a pin but
\* analog_value, and the state of a pin changes only by digitalWrite on an
\* output pin or by reset_simulation.
C20_ObserverOnlyAnalog ==
  [][/\ Widgets
        => \A n \in Pins :
             pins'[n] = [pins[n] EXCEPT !.analog_value = pins'[n].analog_value]
     /\ \A n \in Pins :
          pins'[n].state # pins[n].state => StateWrittenByProgram(n)]_vars

\* The GUI thread takes a button press or a callback of a widget.
ObserverStep == obs.pc = "idle" /\ gui_events' # gui_events

\* C20 amended: a callback of the widgets changes no pwm_value, pwm_enabled
\* or last_change; it changes a mode only as set_pin_mode of that pin and a
\* state only as set_pin_state of that pin, which must be an output; the
\* state of a pin changes only by digitalWrite on an output pin, by
\* set_pin_state on an output pin, or by reset_simulation.
C20_ObserverWrites ==
  [][/\ ObserverStep
        => /\ \A n \in Pins :
                /\ pins'[n].pwm_value = pins[n].pwm_value
                /\ pins'[n].pwm_enabled = pins[n].pwm_enabled
                /\ pins'[n].last_change = pins[n].last_change
                /\ pins'[n].mode # pins[n].mode
                     => pins' = [pins EXCEPT ![n].mode = pins'[n].mode]
                /\ pins'[n].analog_value # pins[n].analog_value
                     => pins' = [pins EXCEPT ![n].analog_value = pins'[n].analog_value]
                /\ pins'[n].state # pins[n].state
                     => pins' = [pins EXCEPT ![n].state = pins'[n].state]
           /\ UNCHANGED << timers, simulation_time >>
     /\ \A n \in Pins :
          pins'[n].state # pins[n].state
            => \/ ObserverStep /\ pins[n].mode = "OUTPUT"
               \/ StateWrittenByProgram(n)]_vars

\* With no routine compiled, the widgets have made pin 13 HIGH, then an
\* input, and have set the analog value of pin 14.
C20_Witness ==
  /\ ~has_code
  /\ pins[13].state = "HIGH"
  /\ pins[13].mode = "INPUT"
  /\ pins[14].analog_value = 1023

\* C21: arduino_delay adds the delay to simulation_time before it sleeps:
\* from the moment the thread is inside time.sleep the delay is on the clock.
C21_DelayAdvancesBeforeSleep ==
  [][\A w \in Threads :
       arduino_delay(w) /\ thr'[w].pc = "sleep"
         => simulation_time' = simulation_time + Cur(w).num]_vars

\* stop_simulation has been called by the Stop button for thread k, which
\* was alive at that moment.
StopRequested(k) == sim_thread = k /\ obs.pc = "join" /\ obs.cmd = "stop"

\* C22: after a Stop that no later Run follows, the simulation thread
\* eventually ends; sim_running turns True only in run_code; and once no
\* thread is alive the pins, timers, serial data and clock change only by
\* the GUI thread.
C22_StopTerminates ==
  /\ \A k \in Threads : StopRequested(k) ~> (~Alive(k) \/ sim_thread # k)
  /\ [][/\ ~sim_running /\ sim_running' => obs.pc = "run_start"
        /\ (\A w \in Threads : ~Alive(w)) /\ registry' # registry => obs' # obs]_vars

C22_Witness ==
  /\ sim_thread = 1
  /\ ~Alive(1)
  /\ ~sim_running
  /\ obs = IdleObserver
  /\ gui_events = 2

\* C23: a delay of d > 0 ms advances every timer: its counter_value moves
\* on, or wraps with overflow_count one higher.
C23_DelayAdvancesTimers ==
  [][\A w \in Threads :
       arduino_delay_store(w) /\ Cur(w).num > 0
         => \A t \in Timers :
              \/ timers'[t].counter_value > timers[t].counter_value
              \/ timers'[t].overflow_count = timers[t].overflow_count + 1]_vars

\* C24: simulation_time, tx_count and rx_count never decrease in a step
\* other than those of reset_simulation, which put them back to 0.
C24_CountsMonotonic ==
  [][/\ simulation_time' < simulation_time
          => obs.pc = "reset_time" /\ simulation_time' = 0
     /\ serial'.tx_count < serial.tx_count
          => obs.pc = "reset_serial" /\ serial'.tx_count = 0
     /\ serial'.rx_count < serial.rx_count
          => obs.pc = "reset_serial" /\ serial'.rx_count = 0]_vars

\* C25: while sim_running is True the Run button does nothing: run_code
\* does not enter reset_simulation, no thread is started, and the step
\* leaves pins, timers, serial data, clock and flag as they were.
C25_RunWhileRunningRejected ==
  [][sim_running /\ obs.pc = "idle"
       => /\ obs'.cmd # "run"
          /\ sim_thread' = sim_thread
          /\ (gui_events' = gui_events /\ thr' = thr
                => registry' = registry /\ sim_running')]_vars

\* a running simulation in which only the test of sim_running keeps the Run
\* button from starting another thread
C25_Witness ==
  /\ sim_running
  /\ has_code
  /\ obs.pc = "idle"
  /\ Alive(sim_thread)
  /\ sim_thread < MaxThreads
  /\ gui_events < MaxGuiEvents

\* The milliseconds all delay lines of a routine ask for.
RoutineDelay(lines) == DelaySum(lines, Len(lines))

\* C26: in an undisturbed run, when n loop iterations are complete (the
\* thread is at the pacing sleep or back at the while test) simulated time
\* is S + n * (D + 1) ms, S and D being the delays of setup and of one loop
\* iteration; the speed does not enter.
C26_TimeAfterIterations ==
  \A w \in Threads :
    thr[w].pc \in {"pace", "while"}
      => simulation_time
           = RoutineDelay(setup_code) + thr[w].loop_count * (RoutineDelay(loop_code) + 1)

\* two iterations at a speed other than 1x with S = 3 and D = 4
C26_Witness ==
  \E w \in Threads :
    /\ code_text = ProgModes
    /\ speed_var \in {"0.5x", "10x"}
    /\ thr[w].pc = "while"
    /\ thr[w].loop_count = 2
    /\ simulation_time = 13

\* C27: reset_simulation leaves the mode of every pin, the baud rate and
\* every timer's prescaler, compare_value and pwm_mode as they are; the
\* modes are not put back to those of construction.
C27_ResetKeepsConfiguration ==
  [][/\ reset_simulation_pins
          => /\ \A n \in Pins : pins'[n].mode = pins[n].mode
             /\ \A t \in Timers :
                  /\ timers'[t].prescaler = timers[t].prescaler
                  /\ timers'[t].compare_value = timers[t].compare_value
                  /\ timers'[t].pwm_mode = timers[t].pwm_mode
     /\ reset_simulation_serial => serial'.baud_rate = serial.baud_rate
     /\ reset_simulation_time => pins' = pins /\ timers' = timers /\ serial' = serial]_vars

\* a second run begins with the mode of pin 5 and the baud rate that the
\* first run had set
C27_Witness ==
  /\ code_text = ProgModes
  /\ sim_thread = 2
  /\ thr[2].pc = "start"
  /\ ~Alive(1)
  /\ pins[5].mode = "INPUT_PULLUP"
  /\ pins[5].state = "LOW"
  /\ serial.baud_rate = 115200
  /\ serial.tx_buffer = << >>

RECURSIVE SumLen(_)
\* sum(len(s) for s in tx_buffer)
SumLen(buf) == IF buf = << >> THEN 0 ELSE Len(Head(buf)) + SumLen(Tail(buf))

\* No thread is between the append and the count update of serial_output,
\* and reset_simulation is not between clearing the buffers and the counts.
SerialQuiet ==
  /\ obs.pc = "idle"
  /\ \A w \in Threads : thr[w].pc \notin {"so_load", "so_store"}

\* C28: whenever no serial_output call is in progress, tx_count is the sum
\* of the lengths of the strings in tx_buffer, also when the simulation
\* thread and the serial input of the GUI thread have both written.
C28_TxCountIsLogLength ==
  SerialQuiet => serial.tx_count = SumLen(serial.tx_buffer)

\* The Send button with a non-empty entry: the first step of send_serial_input.
InjectStep == obs.pc = "idle" /\ obs'.pc = "ssi_load"

\* C29: sending a non-empty text t appends t + "\n" to rx_buffer and the
\* one echo ">> t\n" to tx_buffer; rx_count stays 0; rx_buffer changes in no
\* other step than this one and reset_simulation, which empties it; no
\* step of a simulation thread touches it.
C29_SerialInput ==
  /\ [](serial.rx_count = 0)
  /\ [][/\ InjectStep
             => \E t \in ObsTexts :
                  /\ serial'.rx_buffer = Append(serial.rx_buffer, t \o "\n")
                  /\ serial'.tx_buffer = Append(serial.tx_buffer, ">> " \o t \o "\n")
                  /\ serial'.rx_count = serial.rx_count
        /\ ~InjectStep /\ serial'.rx_buffer # serial.rx_buffer
             => obs.pc = "reset_serial"
        /\ obs.pc = "reset_serial" /\ obs'.pc # "reset_serial"
             => serial'.rx_buffer = << >>]_vars

\* a text was sent while a thread ran and is still in rx_buffer after the
\* thread has executed further lines
C29_Witness ==
  \E w \in Threads :
    /\ serial.rx_buffer = << "go\n" >>
    /\ obs.pc = "idle"
    /\ ">> go\n" \in {serial.tx_buffer[i] : i \in DOMAIN serial.tx_buffer}
    /\ thr[w].phase = "loop"
    /\ thr[w].loop_count = 1
    /\ code_text = ProgSerial

\* What the first setup line of a run is to find.
FreshRun ==
  /\ simulation_time = 0
  /\ serial.tx_buffer = << >>
  /\ serial.rx_buffer = << >>
  /\ \A n \in Pins : pins[n].state = "LOW" /\ ~pins[n].pwm_enabled

\* C30: when run_code starts the simulation thread, reset_simulation has
\* put simulated time to 0, emptied tx_buffer and rx_buffer and left every
\* pin LOW with PWM disabled, whatever the previous run did.
C30_RunStartsFromReset ==
  [][run_code_start => FreshRun]_vars

====
